---- MODULE Spec2Model ----
(***************************************************************************)
(* The request-handling pipeline of the k6 playground service: the logic   *)
(* router, the correlation-id middleware, the wrap composer with the       *)
(* fault and delay injectors, the stabler chain with its internal GET to   *)
(* /stable, and the instrumentation wrappers, for the four builds of the   *)
(* program kept in the repository.                                         *)
(***************************************************************************)
EXTENDS Integers, Sequences, FiniteSets, TLC

VARIABLES
    variant,   \* the build that is running (one of the four main packages)
    g,         \* the goroutine serving the current request
    blocked,   \* the /unstable goroutine parked in Client.Do, if any
    result,    \* the (string, error) pair last returned by stabler.stable
    events,    \* the side effects of the current request, in program order
    proc       \* the process: its other goroutines, its counters, its exit

vars == <<variant, g, blocked, result, events, proc>>

----------------------------------------------------------------------------
(* Builds.  part_001: the first server, no middleware.  part_002: zap,     *)
(* correlation id, active fault injection.  part_000: tracing and the      *)
(* timing histogram.  main: tracing and the request counters.              *)

Variants == {"part_001", "part_002", "part_000", "main"}

\* Length of the longest middleware list handed to wrap by the composer runs.
MaxMids == 3

----------------------------------------------------------------------------
(* Values carried by a context.Context under the key "correlationId".      *)

Nil == [t |-> "nil", v |-> ""]

Str(s) == [t |-> "string", v |-> s]

NonString == [t |-> "int", v |-> "7"]

\* context.Context of a request: ctx.Value("correlationId") and the active span.
\* TraceID.String() of a context without a span, and the trace ids a new root
\* span can get.
NoTrace == "00000000000000000000000000000000"

TraceIds == {"4bf92f3577b34da6a3ce929d0e0e4736", "0af7651916cd43dd8448eb211c80319c"}

BaseCtx == [correlationId |-> Nil, span |-> "", trace |-> NoTrace]

\* context.WithValue(ctx, "correlationId", val): a derived context, ctx is kept.
WithValue(ctx, val) == [ctx EXCEPT !.correlationId = val]

----------------------------------------------------------------------------
(* Headers.  net/http keeps a header map under canonical MIME keys; Get    *)
(* canonicalises the key it is asked for, the server canonicalises the     *)
(* keys it reads off the wire, and a client writes the keys of its map     *)
(* exactly as they are spelled.                                            *)

CidSpellings == {"correlation-id", "Correlation-Id", "CORRELATION-ID"}

CanonicalKey(k) ==
    IF k \in CidSpellings THEN "Correlation-Id"
    ELSE IF k \in {"traceparent", "Traceparent"} THEN "Traceparent"
    ELSE IF k \in {"x-other", "X-Other"} THEN "X-Other"
    ELSE k

NoHeader == <<>>

\* The header map the server hands to the handler for the wire header h.
ReadHeader(h) ==
    [k \in {CanonicalKey(j) : j \in DOMAIN h} |->
        h[CHOOSE j \in DOMAIN h : CanonicalKey(j) = k]]

\* request.Header.Get(key)
HeaderGet(h, key) ==
    IF CanonicalKey(key) \in DOMAIN h THEN h[CanonicalKey(key)] ELSE ""

----------------------------------------------------------------------------
(* http.ResponseWriter: the status line is fixed by the first WriteHeader  *)
(* (or by the first Write, as 200); headerCalls counts WriteHeader calls.  *)

NewWriter == [status |-> 0, body |-> "", headerCalls |-> 0]

WriteHeader(w, code) ==
    [w EXCEPT !.status = IF @ = 0 THEN code ELSE @,
              !.headerCalls = @ + 1]

Write(w, bytes) ==
    [w EXCEPT !.status = IF @ = 0 THEN 200 ELSE @,
              !.body = @ \o bytes]

----------------------------------------------------------------------------
(* Requests, handler layers and the serving goroutine.                     *)

Paths == {"/stable", "/unstable", "/other", "/stable/"}

Methods == {"GET", "POST"}

Bodies == {"", "payload"}

\* Header blocks a client may send: none, an unrelated header, or the
\* correlation id under some spelling, empty or not.
WireHeaders ==
    {NoHeader, "x-other" :> "abc-123"}
        \cup {k :> val : k \in {"correlation-id", "CORRELATION-ID"},
                         val \in {"", "abc-123", "7"}}

\* strconv.Itoa(time.Now().Nanosecond()): a decimal numeral of 0..999999999.
GenIds == {"0", "123456789"}

\* rand.Intn(1000), the injected delay in milliseconds.
DelayMs == {0, 999}

\* rand.Intn(2)
Coins == {0, 1}

L(kind, name) == [k |-> kind, n |-> name]

Ev(e, val) == [e |-> e, v |-> val, ms |-> 0, cid |-> Nil]

Frame(layer, req) == [k |-> layer.k, n |-> layer.n, req |-> req, status |-> 0]

NoRequest ==
    [path |-> "", method |-> "", body |-> "", header |-> NoHeader, ctx |-> BaseCtx]

Idle ==
    [pc |-> "idle", inner |-> FALSE, todo |-> <<>>, frames |-> <<>>,
     req |-> NoRequest, w |-> NewWriter, stabler |-> <<>>,
     m |-> <<>>, i |-> 1, handler |-> <<>>]

NoGoroutine == [Idle EXCEPT !.pc = "none"]

NoResult == [body |-> "", err |-> "unset"]

\* The build's fault injector tosses a coin (the later builds always delegate).
ActiveFaults(v) == v \in {"part_001", "part_002"}

\* The build's slowDown sleeps while wrap composes (the traced build returns a
\* closure that sleeps when it is invoked).
EagerSlowDown(v) == v \in {"part_002", "main"}

NewLogicHandlerCorrelationInnermost(v) ==
    CASE v \in {"main", "part_000"} ->
           LET meter == IF v = "main" THEN "counting" ELSE "timing"
           IN  [top      |-> <<L("otelhttp", "logic routing"), L("logicHandler", "")>>,
                stable   |-> <<L("otelhttp", "http-stable"), L(meter, "stable"),
                               L("correlationId", ""), L("stableHandler", "")>>,
                unstable |-> <<L("otelhttp", "http-unstable"), L(meter, "unstable"),
                               L("correlationId", ""), L("unstableHandler", "")>>,
                stabler  |-> <<L("tracingStabler", "stabler"), L("httpStabler", "")>>]
      [] v = "part_002" ->
           [top      |-> <<L("logicHandler", "")>>,
            stable   |-> <<L("correlationId", ""), L("stableHandler", "")>>,
            unstable |-> <<L("correlationId", ""), L("unstableHandler", "")>>,
            stabler  |-> <<L("httpStabler", "")>>]
      [] OTHER ->
           [top      |-> <<L("logicHandler", "")>>,
            stable   |-> <<L("stable", "")>>,
            unstable |-> <<L("unstable", "")>>,
            stabler  |-> <<>>]

\* The handler tree built at start-up: the server's handler, the two routes of
\* the logic handler, and the stabler behind the unstable handler.  Each is the
\* list of its layers, outermost first.
NewLogicHandler(v) ==
    CASE v = "main" ->
           [top      |-> <<L("otelhttp", "logic routing"), L("logicHandler", "")>>,
            stable   |-> <<L("otelhttp", "http-stable"), L("counting", "stable"),
                           L("correlationId", ""), L("stableHandler", "")>>,
            unstable |-> <<L("correlationId", ""), L("otelhttp", "http-unstable"),
                           L("counting", "unstable"), L("unstableHandler", "")>>,
            stabler  |-> <<L("tracingStabler", "stabler"), L("httpStabler", "")>>]
      [] v = "part_000" ->
           [top      |-> <<L("otelhttp", "logic routing"), L("logicHandler", "")>>,
            stable   |-> <<L("otelhttp", "http-stable"), L("timing", "stable"),
                           L("correlationId", ""), L("stableHandler", "")>>,
            unstable |-> <<L("correlationId", ""), L("otelhttp", "http-unstable"),
                           L("timing", "unstable"), L("unstableHandler", "")>>,
            stabler  |-> <<L("tracingStabler", "stabler"), L("httpStabler", "")>>]
      [] v = "part_002" ->
           [top      |-> <<L("logicHandler", "")>>,
            stable   |-> <<L("correlationId", ""), L("stableHandler", "")>>,
            unstable |-> <<L("correlationId", ""), L("unstableHandler", "")>>,
            stabler  |-> <<L("httpStabler", "")>>]
      [] OTHER ->
           [top      |-> <<L("logicHandler", "")>>,
            stable   |-> <<L("stable", "")>>,
            unstable |-> <<L("unstable", "")>>,
            stabler  |-> <<>>]

\* The goroutine the server starts for a request read off a connection.
Serve(v, req, isInner) ==
    [Idle EXCEPT !.pc = "serve", !.inner = isInner, !.req = req,
                 !.todo = NewLogicHandler(v).top,
                 !.stabler = NewLogicHandler(v).stabler]

\* The layer about to be called.
AtLayer(kind) ==
    /\ g.pc = "serve"
    /\ g.todo # <<>>
    /\ Head(g.todo).k = kind

\* The innermost layer that has called down and waits for its callee to return.
Returning(kind) ==
    /\ g.pc = "serve"
    /\ g.todo = <<>>
    /\ g.frames # <<>>
    /\ g.frames[Len(g.frames)].k = kind

Top == g.frames[Len(g.frames)]

Pop == SubSeq(g.frames, 1, Len(g.frames) - 1)

\* A layer calls the next handler with request r and stays on the stack.
CallNext(r) ==
    [g EXCEPT !.frames = Append(@, Frame(Head(g.todo), g.req)),
              !.todo = Tail(@), !.req = r]

HoldStatusNotHeld(frames, code) == frames

\* statusHoldingResponseWriter.WriteHeader: every counting wrapper the call
\* passes through records the code, then the server's writer gets it.
HoldStatus(frames, code) ==
    [j \in 1..Len(frames) |->
        IF frames[j].k = "counting" THEN [frames[j] EXCEPT !.status = code]
        ELSE frames[j]]

----------------------------------------------------------------------------
(* The pure parts of the handlers.                                         *)

Respond(gr, code, bytes) ==
    [gr EXCEPT !.w = Write(WriteHeader(@, code), bytes),
               !.frames = HoldStatus(@, code)]

\* w.WriteHeader(code) with nothing written after it.
RespondStatus(gr, code) ==
    [gr EXCEPT !.w = WriteHeader(@, code),
               !.frames = HoldStatus(@, code)]

RouteOfUnknownStable(v, path) ==
    CASE path = "/Stable" -> NewLogicHandler(v).stable
      [] path = "/unstable" -> NewLogicHandler(v).unstable
      [] OTHER -> <<>>

RouteOfDefaultStable(v, path) ==
    CASE path = "/unstable" -> NewLogicHandler(v).unstable
      [] OTHER -> NewLogicHandler(v).stable

\* The switch of logicHandler.ServeHTTP (and of server.ServeHTTP): the route
\* handler the path selects, <<>> for the default branch.
RouteOf(v, path) ==
    CASE path = "/stable" -> NewLogicHandler(v).stable
      [] path = "/unstable" -> NewLogicHandler(v).unstable
      [] OTHER -> <<>>

CallerRequestSetInPlace(req, withCid) == withCid

\* request.WithContext(withCid) returns a shallow copy: the request the
\* caller of the middleware holds is left as it was received.
CallerRequest(req, withCid) == req

ResolveCidNoGeneration(req, gen) ==
    LET c == req.ctx.correlationId
        h == HeaderGet(req.header, "correlation-id")
    IN  IF c.t = "string" /\ c.v # ""
        THEN req
        ELSE [req EXCEPT !.ctx = WithValue(@, Str(h))]

ResolveCidInvertedLength(req, gen) ==
    LET c == req.ctx.correlationId
        h == HeaderGet(req.header, "correlation-id")
    IN  IF c.t = "string" /\ c.v = ""
        THEN req
        ELSE [req EXCEPT !.ctx = WithValue(@, Str(IF h = "" THEN gen ELSE h))]

ResolveCidIgnoringContext(req, gen) ==
    LET h == HeaderGet(req.header, "correlation-id")
    IN  [req EXCEPT !.ctx = WithValue(@, Str(IF h = "" THEN gen ELSE h))]

\* correlationIdMiddleware.ServeHTTP: the request handed to the next handler,
\* gen being what the clock would give as a fresh id.
ResolveCid(req, gen) ==
    LET c == req.ctx.correlationId
        h == HeaderGet(req.header, "correlation-id")
    IN  IF c.t = "string" /\ c.v # ""
        THEN req
        ELSE [req EXCEPT !.ctx = WithValue(@, Str(IF h = "" THEN gen ELSE h))]

WrapInitNil(f) == <<>>

\* handler := f, the handler wrap starts from and returns when m is empty.
WrapInit(f) == f

RangeAtReversed(m, i) == m[Len(m) + 1 - i]

\* for _, mid := range m: the middleware the i-th iteration of wrap applies.
RangeAt(m, i) == m[i]

\* mid(handler) for the middleware named mid: the handler it returns, as the
\* list of closures a call runs through, outermost first.  The injectors
\* return a closure around next, a sleeping-at-once slowDown returns next.
Middleware(v, mid, next) ==
    CASE mid = "injectFails" -> <<L("injectFails", "")>> \o next
      [] mid = "slowDown" ->
           IF EagerSlowDown(v) THEN next ELSE <<L("slowDown", "")>> \o next
      [] OTHER -> <<L("probe", mid)>> \o next

UnstableMiddlewareSwapped == <<"slowDown", "injectFails">>

\* The middleware list unstableHandler.ServeHTTP hands to wrap.
UnstableMiddleware == <<"injectFails", "slowDown">>

InjectFailsRestFallsThrough(rest, passes) == Tail(rest)

\* What is still to run after the closure of injectFails: next on a pass,
\* nothing after a fault (the closure returns once it has written 500).
InjectFailsRest(rest, passes) == IF passes THEN Tail(rest) ELSE <<>>

InjectFailsAlwaysTosses(v, coin) == coin = 0

\* injectFails: whether the toss lets the request through to next.
InjectFailsPasses(v, coin) == IF ActiveFaults(v) THEN coin = 0 ELSE TRUE

UnstableResponseLeakingBody(res) ==
    IF res.err # "nil" THEN [code |-> 500, body |-> "could not get stable response"]
    ELSE [code |-> 200, body |-> res.body]

UnstableResponseBadGateway(res) ==
    IF res.err # "nil" THEN [code |-> 502, body |-> ""]
    ELSE [code |-> 200, body |-> res.body]

\* The terminal closure of unstableHandler.ServeHTTP: what it writes for the
\* pair the stabler returned.
UnstableResponse(res) ==
    IF res.err # "nil" THEN [code |-> 500, body |-> ""]
    ELSE [code |-> 200, body |-> res.body]

GetStableWithoutHeader(cId) ==
    [path |-> "/stable", method |-> "GET", body |-> "",
     header |-> NoHeader, ctx |-> BaseCtx]

\* The request httpStabler.stable builds, as the server reads it off the wire.
GetStable(cId) ==
    [path |-> "/stable", method |-> "GET", body |-> "",
     header |-> ReadHeader("correlation-id" :> cId), ctx |-> BaseCtx]

\* otelhttp.NewTransport: the round tripper adds the traceparent header of
\* the context's trace to the request; the plain client sends it as built.
OtelTransport(v) == v \in {"part_000", "main"}

RoundTrip(v, req, ctx) ==
    IF OtelTransport(v)
    THEN [req EXCEPT !.header =
            [k \in DOMAIN req.header \cup {"Traceparent"} |->
                IF k = "Traceparent" THEN ctx.trace ELSE req.header[k]]]
    ELSE req

\* The handler of otelhttp extracts the traceparent header into the context
\* and starts the span named name: a child in the trace of the header or of
\* the context's span, or the root of a new trace.
StartSpan(req, name, gen) ==
    LET remote == HeaderGet(req.header, "traceparent")
        trace  == IF remote # "" THEN remote
                  ELSE IF req.ctx.trace # NoTrace THEN req.ctx.trace
                  ELSE gen
    IN  [req EXCEPT !.ctx.span = name, !.ctx.trace = trace]

Log(e, ctx) == [Ev(e, "") EXCEPT !.cid = ctx.correlationId]

ExemplarLabelOfBackground(ctx) == NoTrace

\* trace.SpanFromContext(r.Context()).SpanContext().TraceID().String()
ExemplarLabel(ctx) == ctx.trace

\* What the deferred functions of a layer do when the layer is left, by a
\* return or by a panic that unwinds it.  A layer without defer does nothing.
Deferred(frame) ==
    CASE frame.k = "timing" ->
           <<[Ev("observe", frame.n) EXCEPT !.cid = frame.req.ctx.correlationId],
             Ev("exemplar", ExemplarLabel(frame.req.ctx))>>
      [] frame.k = "counting" -> <<Ev("total.Inc", frame.n)>>
      [] frame.k = "tracingStabler" -> <<Ev("span.end", frame.n)>>
      [] OTHER -> <<>>

\* logErr(log, f): f is called, and an error it returns is logged.
LogErr(f, outcome) ==
    <<Ev(f, outcome)>> \o (IF outcome = "nil" THEN <<>> ELSE <<Ev("unexpected error", f)>>)

\* What io.ReadAll and Body.Close can return.
ReadOutcomes == {"read", "failed"}

CloseOutcomes == {"nil", "close failed"}

\* The builds whose httpStabler.stable defers the close of the response body.
DefersClose(v) == v \in {"part_000", "main"}

\* The rest of httpStabler.stable once Client.Do returned a response: the
\* body that was read, or the read error; the status is not looked at.
ReadAll(resp, rd) ==
    IF rd = "read"
    THEN [body |-> resp.body, err |-> "nil"]
    ELSE [body |-> "", err |-> "could not read response bytes"]

\* return t.stabler.stable(newCtx)
TracedResultSwallowingError(res) == [res EXCEPT !.err = "nil"]

TracedResult(res) == res

Sleep(ms) == [Ev("sleep", "") EXCEPT !.ms = ms]

----------------------------------------------------------------------------
(* The process.  main starts a goroutine that waits for a signal and        *)
(* cancels the root context, one goroutine per exporter and per server that *)
(* waits for the cancellation and then shuts its exporter or server down,   *)
(* and one goroutine per server that runs ListenAndServe; then it waits for *)
(* the cancellation itself and returns.                                     *)

Servers == {"logic", "prometheus"}

Exporters == {"tracer", "meter"}

\* The seconds of every shutdown timeout.
GraceSeconds == 5

\* The routes with a pair of counters, and the requests followed at once.
Routes == {"stable", "unstable"}

MaxRequests == 3

\* The process when main has reached its last line and waits on ctx.Done().
Started ==
    [exit      |-> "running",
     signal    |-> "none",
     cancelled |-> FALSE,
     listen    |-> [s \in Servers |-> "starting"],
     shut      |-> [s \in Servers |-> "waiting"],
     exporter  |-> [e \in Exporters |-> [pc |-> "waiting", since |-> 0]],
     conn      |-> [state |-> "none", left |-> 0],
     clock     |-> 0,
     logs      |-> {},
     counters  |-> [r \in Routes |-> [ok |-> 0, total |-> 0]],
     counting  |-> [i \in 1..MaxRequests |-> [pc |-> "idle", route |-> "", status |-> 0]]]

\* The process once both servers listen.
Serving == [Started EXCEPT !.listen = [s \in Servers |-> "serving"]]

\* l.Fatal(msg): the message is logged and the process exits with status 1.
Fatal(p, msg) == [p EXCEPT !.logs = @ \cup {msg}, !.exit = "1"]

\* The context of s.Shutdown: context.WithTimeout(ctx, 5s) on the root
\* context is done as soon as the root context is, or its deadline passed.
ServerTimeoutDone(p) == p.cancelled \/ p.clock >= GraceSeconds

\* The context of tp.Shutdown and mp.Shutdown:
\* context.WithTimeout(context.Background(), 5s), made at second `since`.
ExporterTimeoutDone(p, since) == p.clock - since >= GraceSeconds

----------------------------------------------------------------------------
(* The server: one request at a time is followed from the moment it is     *)
(* read to the moment its handler returns, the internal GET included.      *)

Init ==
    /\ variant \in Variants
    /\ g = Idle
    /\ blocked = NoGoroutine
    /\ result = NoResult
    /\ events = <<>>
    /\ proc = Serving

\* The logic server reads a request and starts its handler.
Receive ==
    /\ g.pc \in {"idle", "done"}
    /\ \E p \in Paths, mth \in Methods, b \in Bodies, h \in WireHeaders :
         g' = Serve(variant,
                    [path |-> p, method |-> mth, body |-> b,
                     header |-> ReadHeader(h), ctx |-> BaseCtx], FALSE)
    /\ events' = <<>>
    /\ result' = NoResult
    /\ UNCHANGED <<proc, variant, blocked>>

\* otelhttp.NewHandler(h, name).ServeHTTP: start the span, call h.
OtelHandler ==
    /\ AtLayer("otelhttp")
    /\ \E gen \in TraceIds : g' = CallNext(StartSpan(g.req, Head(g.todo).n, gen))
    /\ events' = Append(events, Ev("span.start", Head(g.todo).n))
    /\ UNCHANGED <<proc, variant, blocked, result>>

OtelReturn ==
    /\ Returning("otelhttp")
    /\ g' = [g EXCEPT !.frames = Pop, !.req = Top.req]
    /\ events' = Append(events, Ev("span.end", Top.n))
    /\ UNCHANGED <<proc, variant, blocked, result>>

\* logicHandler.ServeHTTP, server.ServeHTTP, notFoundResponse
LogicRoute ==
    /\ AtLayer("logicHandler")
    /\ LET route == RouteOf(variant, g.req.path)
       IN  IF route # <<>>
           THEN /\ g' = [g EXCEPT !.todo = route]
                /\ events' = events
           ELSE /\ g' = Respond([g EXCEPT !.todo = <<>>], 404, "not found")
                /\ events' = Append(events, Ev("notFoundResponse", ""))
    /\ UNCHANGED <<proc, variant, blocked, result>>

\* countingMiddleware.ServeHTTP up to the call of the wrapped handler.
CountingEnter ==
    /\ AtLayer("counting")
    /\ g' = CallNext(g.req)
    /\ UNCHANGED <<proc, variant, blocked, result, events>>

\* countingMiddleware.ServeHTTP after the wrapped handler returned: ok.Inc()
\* on a held status below 500, then the deferred total.Inc().
CountingReturn ==
    /\ Returning("counting")
    /\ g' = [g EXCEPT !.frames = Pop, !.req = Top.req]
    /\ events' = events
                   \o (IF Top.status < 500 THEN <<Ev("ok.Inc", Top.n)>> ELSE <<>>)
                   \o <<Ev("total.Inc", Top.n)>>
    /\ UNCHANGED <<proc, variant, blocked, result>>

\* timingMiddleware.ServeHTTP up to the call of the wrapped handler.
TimingEnter ==
    /\ AtLayer("timing")
    /\ g' = CallNext(g.req)
    /\ UNCHANGED <<proc, variant, blocked, result, events>>

\* The deferred observation of timingMiddleware.ServeHTTP.
TimingReturn ==
    /\ Returning("timing")
    /\ g' = [g EXCEPT !.frames = Pop, !.req = Top.req]
    /\ events' = events \o Deferred(Top)
    /\ UNCHANGED <<proc, variant, blocked, result>>

\* correlationIdMiddleware.ServeHTTP
CorrelationId ==
    /\ AtLayer("correlationId")
    /\ \E gen \in GenIds :
         LET withCid == ResolveCid(g.req, gen)
         IN  g' = [CallNext(withCid) EXCEPT
                     !.frames[Len(g.frames) + 1].req = CallerRequest(g.req, withCid)]
    /\ UNCHANGED <<proc, variant, blocked, result, events>>

\* correlationIdMiddleware.ServeHTTP returns when the next handler has.
CorrelationIdReturn ==
    /\ Returning("correlationId")
    /\ g' = [g EXCEPT !.frames = Pop, !.req = Top.req]
    /\ UNCHANGED <<proc, variant, blocked, result, events>>

\* stableHandler.ServeHTTP
StableServe ==
    /\ AtLayer("stableHandler")
    /\ g' = Respond([g EXCEPT !.todo = <<>>], 200, "hello world")
    /\ events' = Append(events, Log("handling stable", g.req.ctx))
    /\ UNCHANGED <<proc, variant, blocked, result>>

\* stable(w) of the first server
StableFn ==
    /\ AtLayer("stable")
    /\ g' = Respond([g EXCEPT !.todo = <<>>], 200, "hello world")
    /\ events' = Append(events, Ev("stable", ""))
    /\ UNCHANGED <<proc, variant, blocked, result>>

\* unstable(w) of the first server: 500 on a zero toss, stable(w) otherwise.
UnstableFn ==
    /\ AtLayer("unstable")
    /\ \E coin \in Coins :
         IF coin = 0
         THEN /\ g' = RespondStatus([g EXCEPT !.todo = <<>>], 500)
              /\ events' = events \o <<Ev("unstable", ""), Ev("injectFails", "random fail")>>
         ELSE /\ g' = [g EXCEPT !.todo = <<L("stable", "")>>]
              /\ events' = events \o <<Ev("unstable", ""), Ev("injectFails", "pass")>>
    /\ UNCHANGED <<proc, variant, blocked, result>>

\* unstableHandler.ServeHTTP up to the call of wrap: the terminal closure and
\* the middleware list [injectFails, slowDown] are its arguments.
UnstableServe ==
    /\ AtLayer("unstableHandler")
    /\ g' = [g EXCEPT !.pc = "wrap", !.todo = <<>>,
                      !.handler = WrapInit(<<L("terminal", "")>>),
                      !.m = UnstableMiddleware, !.i = 1]
    /\ events' = Append(events, Log("unstableHandler", g.req.ctx))
    /\ UNCHANGED <<proc, variant, blocked, result>>

\* One iteration of the loop of wrap: handler = mid(handler).  A slowDown
\* that sleeps at once does so here, while the chain is being composed.
WrapStep ==
    /\ g.pc = "wrap"
    /\ g.i <= Len(g.m)
    /\ LET mid == RangeAt(g.m, g.i)
       IN  /\ g' = [g EXCEPT !.handler = Middleware(variant, mid, @), !.i = @ + 1]
           /\ IF mid = "slowDown" /\ EagerSlowDown(variant)
              THEN \E ms \in DelayMs : events' = Append(events, Sleep(ms))
              ELSE events' = events
    /\ UNCHANGED <<proc, variant, blocked, result>>

\* wrap returns; the composed handler is called with the writer and request.
WrapInvoke ==
    /\ g.pc = "wrap"
    /\ g.i > Len(g.m)
    /\ g' = [g EXCEPT !.pc = "serve", !.todo = g.handler]
    /\ UNCHANGED <<proc, variant, blocked, result, events>>

\* The closure injectFails returned.
InjectFails ==
    /\ AtLayer("injectFails")
    /\ \E coin \in Coins :
         IF InjectFailsPasses(variant, coin)
         THEN /\ g' = [g EXCEPT !.todo = InjectFailsRest(@, TRUE)]
              /\ events' = Append(events, Ev("injectFails", "pass"))
         ELSE /\ g' = RespondStatus([g EXCEPT !.todo = InjectFailsRest(@, FALSE)], 500)
              /\ events' = Append(events, Ev("injectFails", "random fail"))
    /\ UNCHANGED <<proc, variant, blocked, result>>

\* The closure slowDown returns in the traced build.
SlowDown ==
    /\ AtLayer("slowDown")
    /\ g' = [g EXCEPT !.todo = Tail(@)]
    /\ \E ms \in DelayMs : events' = Append(events, Sleep(ms))
    /\ UNCHANGED <<proc, variant, blocked, result>>

\* The terminal closure calls u.stable(request.Context()).
Terminal ==
    /\ AtLayer("terminal")
    /\ g' = [CallNext(g.req) EXCEPT !.todo = g.stabler]
    /\ UNCHANGED <<proc, variant, blocked, result, events>>

\* The terminal closure after u.stable returned.
TerminalRespond ==
    /\ Returning("terminal")
    /\ LET r == UnstableResponse(result)
       IN  /\ g' = Respond([g EXCEPT !.frames = Pop, !.req = Top.req], r.code, r.body)
           /\ events' = Append(events, [Ev("sent response", r.body) EXCEPT !.ms = r.code])
    /\ UNCHANGED <<proc, variant, blocked, result>>

\* tracingStabler.stable up to the call of the wrapped stabler.
TracingStabler ==
    /\ AtLayer("tracingStabler")
    /\ g' = CallNext([g.req EXCEPT !.ctx.span = Head(g.todo).n])
    /\ events' = Append(events, Ev("span.start", Head(g.todo).n))
    /\ UNCHANGED <<proc, variant, blocked, result>>

\* The deferred span.End() of tracingStabler.stable, and its return of what
\* the wrapped stabler returned.
TracingStablerReturn ==
    /\ Returning("tracingStabler")
    /\ g' = [g EXCEPT !.frames = Pop, !.req = Top.req]
    /\ events' = Append(events, Ev("span.end", Top.n))
    /\ result' = TracedResult(result)
    /\ UNCHANGED <<proc, variant, blocked>>

\* httpStabler.stable up to Client.Do: the type assertion on the context
\* value, the GET with the correlation-id header, and either a transport
\* error or a request the logic server starts to serve.
HttpStabler ==
    /\ AtLayer("httpStabler")
    /\ LET c == g.req.ctx.correlationId
       IN  IF c.t # "string"
           THEN /\ g' = [g EXCEPT !.pc = "panic"]
                /\ UNCHANGED <<blocked, result, events>>
           ELSE /\ events' = Append(events, Log("httpStabler.stable", g.req.ctx))
                /\ \E net \in {"sent", "failed"} :
                     IF net = "failed"
                     THEN /\ g' = [g EXCEPT !.todo = <<>>]
                          /\ result' = [body |-> "", err |-> "could not send get request"]
                          /\ blocked' = blocked
                     ELSE /\ blocked' = [g EXCEPT !.todo = <<>>]
                          /\ g' = Serve(variant, RoundTrip(variant, GetStable(c.v), g.req.ctx), TRUE)
                          /\ result' = result
    /\ UNCHANGED <<proc, variant>>

\* Client.Do returns the response of the internal request; io.ReadAll reads
\* its body or fails; where the build defers it, logErr closes the body and
\* logs the error of Close.
HttpStablerRead ==
    /\ g.pc = "serve"
    /\ g.inner
    /\ g.todo = <<>>
    /\ g.frames = <<>>
    /\ \E rd \in ReadOutcomes, cl \in CloseOutcomes :
         /\ result' = ReadAll(g.w, rd)
         /\ events' = events
                        \o <<[Ev("Client.Do", g.w.body) EXCEPT !.ms = g.w.status],
                             Ev("io.ReadAll", rd)>>
                        \o (IF DefersClose(variant) THEN LogErr("Body.Close", cl) ELSE <<>>)
    /\ g' = blocked
    /\ blocked' = NoGoroutine
    /\ UNCHANGED <<proc, variant>>

\* The handler of the request returned to the server.
Done ==
    /\ g.pc = "serve"
    /\ ~g.inner
    /\ g.todo = <<>>
    /\ g.frames = <<>>
    /\ g' = [g EXCEPT !.pc = "done"]
    /\ UNCHANGED <<proc, variant, blocked, result, events>>

Next ==
    \/ Receive
    \/ OtelHandler
    \/ OtelReturn
    \/ LogicRoute
    \/ CountingEnter
    \/ CountingReturn
    \/ TimingEnter
    \/ TimingReturn
    \/ CorrelationId
    \/ CorrelationIdReturn
    \/ StableServe
    \/ StableFn
    \/ UnstableFn
    \/ UnstableServe
    \/ WrapStep
    \/ WrapInvoke
    \/ InjectFails
    \/ SlowDown
    \/ Terminal
    \/ TerminalRespond
    \/ TracingStabler
    \/ TracingStablerReturn
    \/ HttpStabler
    \/ HttpStablerRead
    \/ Done

Spec == Init /\ [][Next]_vars

----------------------------------------------------------------------------
(* The composer on its own: wrap is called with a terminal handler H and   *)
(* any list of middleware that log on the way in and on the way out, and   *)
(* the handler it returns is called once.                                  *)

MidPool == {"A", "B", "C"}

MidLists == UNION {[1..n -> MidPool] : n \in 0..MaxMids}

InitWrap ==
    /\ variant \in {"part_002", "part_000", "main"}
    /\ g = Idle
    /\ blocked = NoGoroutine
    /\ result = NoResult
    /\ events = <<>>
    /\ proc = Serving

\* wrap(H, m...) is called.
WrapCall ==
    /\ g.pc \in {"idle", "done"}
    /\ \E m \in MidLists :
         g' = [Idle EXCEPT !.pc = "wrap", !.handler = WrapInit(<<L("H", "")>>),
                           !.m = m, !.i = 1]
    /\ events' = <<>>
    /\ UNCHANGED <<proc, variant, blocked, result>>

\* The closure of a logging middleware, up to its call of next.
Probe ==
    /\ AtLayer("probe")
    /\ events' = Append(events, Ev("before", Head(g.todo).n))
    /\ g' = CallNext(g.req)
    /\ UNCHANGED <<proc, variant, blocked, result>>

\* The closure of a logging middleware, after next returned.
ProbeReturn ==
    /\ Returning("probe")
    /\ events' = Append(events, Ev("after", Top.n))
    /\ g' = [g EXCEPT !.frames = Pop, !.req = Top.req]
    /\ UNCHANGED <<proc, variant, blocked, result>>

\* The terminal handler H.
ProbeTerminal ==
    /\ AtLayer("H")
    /\ events' = Append(events, Ev("H", ""))
    /\ g' = Respond([g EXCEPT !.todo = <<>>], 200, "H")
    /\ UNCHANGED <<proc, variant, blocked, result>>

NextWrap ==
    \/ WrapCall
    \/ WrapStep
    \/ WrapInvoke
    \/ Probe
    \/ ProbeReturn
    \/ ProbeTerminal
    \/ Done

SpecWrap == InitWrap /\ [][NextWrap]_vars

----------------------------------------------------------------------------
(* The correlation-id middleware on its own: it is called, once or nested  *)
(* in itself, around stableHandler, with any context value and header.     *)

CtxValues == {Nil, NonString, Str(""), Str("ctx-1")}

CidChains ==
    {<<L("correlationId", ""), L("stableHandler", "")>>,
     <<L("correlationId", ""), L("correlationId", ""), L("stableHandler", "")>>}

InitCid ==
    /\ variant = "part_002"
    /\ g = Idle
    /\ blocked = NoGoroutine
    /\ result = NoResult
    /\ events = <<>>
    /\ proc = Serving

\* The middleware is called with a request.
CidCall ==
    /\ g.pc \in {"idle", "done"}
    /\ \E c \in CtxValues, h \in WireHeaders, chain \in CidChains :
         g' = [Idle EXCEPT !.pc = "serve", !.todo = chain,
                           !.req = [path |-> "/stable", method |-> "GET", body |-> "",
                                    header |-> ReadHeader(h),
                                    ctx |-> WithValue(BaseCtx, c)]]
    /\ events' = <<>>
    /\ UNCHANGED <<proc, variant, blocked, result>>

NextCid ==
    \/ CidCall
    \/ CorrelationId
    \/ CorrelationIdReturn
    \/ StableServe
    \/ Done

SpecCid == InitCid /\ [][NextCid]_vars

----------------------------------------------------------------------------
(* The unstable handler on its own, its stabler replaced by one that       *)
(* returns any (string, error) pair.                                       *)

StubResults == [body : {"", "hello world", "partial"}, err : {"nil", "boom"}]

InitUnstable ==
    /\ variant \in {"part_002", "part_000", "main"}
    /\ g = Idle
    /\ blocked = NoGoroutine
    /\ result = NoResult
    /\ events = <<>>
    /\ proc = Serving

\* unstableHandler.ServeHTTP is called with a request that carries an id.
UnstableCall ==
    /\ g.pc \in {"idle", "done"}
    /\ \E c \in {"abc-123", "0"}, mth \in Methods :
         g' = [Idle EXCEPT !.pc = "serve",
                           !.todo = <<L("unstableHandler", "")>>,
                           !.stabler = <<L("stubStabler", "")>>,
                           !.req = [path |-> "/unstable", method |-> mth, body |-> "",
                                    header |-> NoHeader,
                                    ctx |-> WithValue(BaseCtx, Str(c))]]
    /\ events' = <<>>
    /\ result' = NoResult
    /\ UNCHANGED <<proc, variant, blocked>>

\* stable(ctx) of the stand-in stabler.
StubStabler ==
    /\ AtLayer("stubStabler")
    /\ \E res \in StubResults : result' = res
    /\ g' = [g EXCEPT !.todo = <<>>]
    /\ events' = Append(events, Log("stub.stable", g.req.ctx))
    /\ UNCHANGED <<proc, variant, blocked>>

NextUnstable ==
    \/ UnstableCall
    \/ UnstableServe
    \/ WrapStep
    \/ WrapInvoke
    \/ InjectFails
    \/ SlowDown
    \/ Terminal
    \/ StubStabler
    \/ TerminalRespond
    \/ Done

SpecUnstable == InitUnstable /\ [][NextUnstable]_vars

----------------------------------------------------------------------------
(* The stabler on its own: stable(ctx) is called with a context that holds *)
(* an id, and the server the GET reaches is any server: it answers with    *)
(* any status and body.                                                    *)

RemoteStatuses == {200, 204, 404, 500}

RemoteBodies == {"hello world", "not found", ""}

InitStabler ==
    /\ variant \in {"part_002", "part_000", "main"}
    /\ g = Idle
    /\ blocked = NoGoroutine
    /\ result = NoResult
    /\ events = <<>>
    /\ proc = Serving

\* u.stable(request.Context()) is called.
StablerCall ==
    /\ g.pc \in {"idle", "done"}
    /\ \E c \in {"abc-123", "0"} :
         g' = [Idle EXCEPT !.pc = "serve",
                           !.todo = NewLogicHandler(variant).stabler,
                           !.req = [NoRequest EXCEPT
                                      !.ctx = [correlationId |-> Str(c),
                                               span |-> "http-unstable",
                                               trace |-> "4bf92f3577b34da6a3ce929d0e0e4736"]]]
    /\ events' = <<>>
    /\ result' = NoResult
    /\ UNCHANGED <<proc, variant, blocked>>

\* The server the GET was sent to answers it.
RemoteAnswer ==
    /\ g.pc = "serve"
    /\ g.inner
    /\ g.todo # <<>>
    /\ \E st \in RemoteStatuses, b \in RemoteBodies :
         g' = Respond([g EXCEPT !.todo = <<>>], st, b)
    /\ UNCHANGED <<proc, variant, blocked, result, events>>

NextStabler ==
    \/ StablerCall
    \/ TracingStabler
    \/ HttpStabler
    \/ RemoteAnswer
    \/ HttpStablerRead
    \/ TracingStablerReturn
    \/ Done

SpecStabler == InitStabler /\ [][NextStabler]_vars

----------------------------------------------------------------------------
(* Shutdown of main.go: the goroutines of the process from the moment main  *)
(* waits on ctx.Done(), with one request in flight on the logic server that *)
(* needs less than the grace window to finish.  Time is counted in seconds  *)
(* from the cancellation.  Nothing runs once the process has exited.        *)

InitShutdown ==
    /\ variant = "main"
    /\ g = Idle
    /\ blocked = NoGoroutine
    /\ result = NoResult
    /\ events = <<>>
    /\ proc = Started

Running == proc.exit = "running"

\* net.Listen of ListenAndServe succeeds and Serve starts to accept.
Bind(s) ==
    /\ Running
    /\ proc.listen[s] = "starting"
    /\ proc.shut[s] = "waiting"
    /\ proc' = [proc EXCEPT !.listen[s] = "serving"]
    /\ UNCHANGED <<variant, g, blocked, result, events>>

\* net.Listen fails: ListenAndServe returns the error and the goroutine
\* calls l.Fatal.
BindFails(s) ==
    /\ Running
    /\ proc.listen[s] = "starting"
    /\ proc.shut[s] = "waiting"
    /\ proc' = Fatal([proc EXCEPT !.listen[s] = "bind failed"],
                     "could not start " \o s \o " server")
    /\ UNCHANGED <<variant, g, blocked, result, events>>

\* The logic server accepts a request whose handler needs `left` seconds.
Accept ==
    /\ Running
    /\ proc.listen["logic"] = "serving"
    /\ proc.shut["logic"] = "waiting"
    /\ proc.conn.state = "none"
    /\ \E left \in 1..(GraceSeconds - 1) :
         proc' = [proc EXCEPT !.conn = [state |-> "active", left |-> left]]
    /\ UNCHANGED <<variant, g, blocked, result, events>>

\* A second passes.
Tick ==
    /\ Running
    /\ ~(proc.conn.state = "active" /\ proc.conn.left = 0)
    /\ \/ proc.conn.state = "active"
       \/ proc.cancelled /\ proc.clock < GraceSeconds
    /\ proc' = [proc EXCEPT
                  !.conn.left = IF proc.conn.state = "active" THEN @ - 1 ELSE @,
                  !.clock = IF proc.cancelled /\ @ < GraceSeconds THEN @ + 1 ELSE @]
    /\ UNCHANGED <<variant, g, blocked, result, events>>

\* The handler of the request in flight returns and the response is sent.
Complete ==
    /\ Running
    /\ proc.conn.state = "active"
    /\ proc.conn.left = 0
    /\ proc' = [proc EXCEPT !.conn.state = "completed"]
    /\ UNCHANGED <<variant, g, blocked, result, events>>

\* SIGINT, SIGTERM or SIGABRT is delivered to the channel of signal.Notify.
Signal ==
    /\ Running
    /\ proc.signal = "none"
    /\ proc' = [proc EXCEPT !.signal = "pending"]
    /\ UNCHANGED <<variant, g, blocked, result, events>>

\* The goroutine of gracefulShutdown receives the signal and cancels.
SignalGoroutine ==
    /\ Running
    /\ proc.signal = "pending"
    /\ proc' = [proc EXCEPT !.signal = "received", !.cancelled = TRUE,
                            !.logs = @ \cup {"received shutdown signal"}]
    /\ UNCHANGED <<variant, g, blocked, result, events>>

\* main: _ = <-ctx.Done(), and the return of main ends the process.
MainReturns ==
    /\ Running
    /\ proc.cancelled
    /\ proc' = [proc EXCEPT !.exit = "0"]
    /\ UNCHANGED <<variant, g, blocked, result, events>>

\* The goroutine of cancellableServer wakes up and calls s.Shutdown, which
\* closes the listener.
ServerShutdown(s) ==
    /\ Running
    /\ proc.cancelled
    /\ proc.shut[s] = "waiting"
    /\ proc' = [proc EXCEPT !.shut[s] = "shutdown"]
    /\ UNCHANGED <<variant, g, blocked, result, events>>

\* s.Shutdown returns: nil when no connection is active, the error of its
\* context when that is done; the error is logged.
ServerShutdownReturns(s) ==
    /\ Running
    /\ proc.shut[s] = "shutdown"
    /\ LET active == s = "logic" /\ proc.conn.state = "active"
       IN  /\ active => ServerTimeoutDone(proc)
           /\ proc' = [proc EXCEPT
                         !.shut[s] = "returned",
                         !.logs = IF active
                                  THEN @ \cup {"could not gracefully shutdown the http logicHandler"}
                                  ELSE @]
    /\ UNCHANGED <<variant, g, blocked, result, events>>

\* ListenAndServe returns http.ErrServerClosed once Shutdown was called, and
\* the goroutine calls l.Fatal on the non-nil error.
ListenReturns(s) ==
    /\ Running
    /\ proc.listen[s] \in {"starting", "serving"}
    /\ proc.shut[s] # "waiting"
    /\ proc' = Fatal([proc EXCEPT !.listen[s] = "closed"],
                     "could not start " \o s \o " server")
    /\ UNCHANGED <<variant, g, blocked, result, events>>

\* The goroutine of initTracer or initMeter wakes up and calls Shutdown with
\* a context of its own.
ExporterShutdown(e) ==
    /\ Running
    /\ proc.cancelled
    /\ proc.exporter[e].pc = "waiting"
    /\ proc' = [proc EXCEPT !.exporter[e] = [pc |-> "flushing", since |-> proc.clock],
                            !.logs = @ \cup {"shutting down otel " \o e \o " provider"}]
    /\ UNCHANGED <<variant, g, blocked, result, events>>

\* Shutdown of the provider returns: flushed, failed, or timed out; an
\* error is logged.
ExporterShutdownReturns(e) ==
    /\ Running
    /\ proc.exporter[e].pc = "flushing"
    /\ \E err \in {"nil", "export failed", "deadline exceeded"} :
         /\ err = "deadline exceeded" => ExporterTimeoutDone(proc, proc.exporter[e].since)
         /\ proc' = [proc EXCEPT
                       !.exporter[e].pc = "returned",
                       !.logs = IF err = "nil" THEN @
                                ELSE @ \cup {"error shutting down " \o e \o " provider"}]
    /\ UNCHANGED <<variant, g, blocked, result, events>>

NextShutdown ==
    \/ \E s \in Servers : Bind(s)
    \/ \E s \in Servers : BindFails(s)
    \/ Accept
    \/ Tick
    \/ Complete
    \/ Signal
    \/ SignalGoroutine
    \/ MainReturns
    \/ \E s \in Servers : ServerShutdown(s)
    \/ \E s \in Servers : ServerShutdownReturns(s)
    \/ \E s \in Servers : ListenReturns(s)
    \/ \E e \in Exporters : ExporterShutdown(e)
    \/ \E e \in Exporters : ExporterShutdownReturns(e)

SpecShutdown == InitShutdown /\ [][NextShutdown]_vars

----------------------------------------------------------------------------
(* The timing middleware on its own, around a handler that answers 200 or  *)
(* 500 or panics, called with a context with or without a span.            *)

HandlerOutcomes == {"200", "500", "panic"}

InitTiming ==
    /\ variant = "part_000"
    /\ g = Idle
    /\ blocked = NoGoroutine
    /\ result = NoResult
    /\ events = <<>>
    /\ proc = Serving

\* timingMiddleware.ServeHTTP is called.
TimingCall ==
    /\ g.pc \in {"idle", "done"}
    /\ \E n \in {"stable", "unstable"}, c \in {Nil, Str("abc-123")},
          t \in TraceIds \cup {NoTrace} :
         g' = [Idle EXCEPT !.pc = "serve",
                           !.todo = <<L("timing", n), L("stubHandler", "")>>,
                           !.req = [NoRequest EXCEPT
                                      !.path = "/" \o n,
                                      !.ctx = [correlationId |-> c,
                                               span |-> IF t = NoTrace THEN ""
                                                        ELSE "http-" \o n,
                                               trace |-> t]]]
    /\ events' = <<>>
    /\ UNCHANGED <<proc, variant, blocked, result>>

\* The wrapped handler: it answers, or panics.
StubHandler ==
    /\ AtLayer("stubHandler")
    /\ \E out \in HandlerOutcomes :
         /\ g' = CASE out = "200" -> Respond([g EXCEPT !.todo = <<>>], 200, "hello world")
                   [] out = "500" -> RespondStatus([g EXCEPT !.todo = <<>>], 500)
                   [] OTHER -> [g EXCEPT !.pc = "panic", !.todo = <<>>]
         /\ events' = Append(events, Ev("handler", out))
    /\ UNCHANGED <<proc, variant, blocked, result>>

\* A panic leaves the innermost layer it has not left yet: the deferred
\* functions of the layer run.
Unwind ==
    /\ g.pc = "panic"
    /\ g.frames # <<>>
    /\ g' = [g EXCEPT !.frames = Pop, !.req = Top.req]
    /\ events' = events \o Deferred(Top)
    /\ UNCHANGED <<proc, variant, blocked, result>>

NextTiming ==
    \/ TimingCall
    \/ TimingEnter
    \/ StubHandler
    \/ TimingReturn
    \/ Unwind
    \/ Done

SpecTiming == InitTiming /\ [][NextTiming]_vars

----------------------------------------------------------------------------
(* The counters under concurrent requests: every request runs             *)
(* countingMiddleware.ServeHTTP in a goroutine of its own, the steps of   *)
(* the goroutines interleave, and each Inc is atomic.  A scrape of        *)
(* /metrics can read the counters in any state.                           *)

InitCounting ==
    /\ variant = "main"
    /\ g = Idle
    /\ blocked = NoGoroutine
    /\ result = NoResult
    /\ events = <<>>
    /\ proc = Serving

\* countingMiddleware.ServeHTTP is called for a request of route r: the
\* total.Inc is deferred and the wrapped handler is called.
CountingCall(i) ==
    /\ proc.counting[i].pc = "idle"
    /\ \E r \in Routes :
         proc' = [proc EXCEPT !.counting[i] = [pc |-> "handler", route |-> r, status |-> 0]]
    /\ UNCHANGED <<variant, g, blocked, result, events>>

\* The wrapped handler writes a status and returns.
HandlerReturns(i) ==
    /\ proc.counting[i].pc = "handler"
    /\ \E st \in {200, 500} :
         proc' = [proc EXCEPT !.counting[i].pc = "returned", !.counting[i].status = st]
    /\ UNCHANGED <<variant, g, blocked, result, events>>

\* The wrapped handler panics: only the deferred function is left to run.
HandlerPanics(i) ==
    /\ proc.counting[i].pc = "handler"
    /\ proc' = [proc EXCEPT !.counting[i].pc = "deferred"]
    /\ UNCHANGED <<variant, g, blocked, result, events>>

\* if writer.status < 500 { m.ok.Inc() }
CountOk(i) ==
    /\ proc.counting[i].pc = "returned"
    /\ LET c == proc.counting[i]
       IN  proc' = [proc EXCEPT
                     !.counting[i].pc = "deferred",
                     !.counters[c.route].ok = IF c.status < 500 THEN @ + 1 ELSE @]
    /\ UNCHANGED <<variant, g, blocked, result, events>>

\* The deferred m.total.Inc() runs as ServeHTTP returns.
CountTotal(i) ==
    /\ proc.counting[i].pc = "deferred"
    /\ proc' = [proc EXCEPT
                  !.counting[i].pc = "done",
                  !.counters[proc.counting[i].route].total = @ + 1]
    /\ UNCHANGED <<variant, g, blocked, result, events>>

NextCounting ==
    \/ \E i \in 1..MaxRequests : CountingCall(i)
    \/ \E i \in 1..MaxRequests : HandlerReturns(i)
    \/ \E i \in 1..MaxRequests : HandlerPanics(i)
    \/ \E i \in 1..MaxRequests : CountOk(i)
    \/ \E i \in 1..MaxRequests : CountTotal(i)

SpecCounting == InitCounting /\ [][NextCounting]_vars

----------------------------------------------------------------------------
(* Observations the properties are stated over.                            *)

\* The goroutine of the request the client sent (not of the internal GET).
Outer == IF g.inner THEN blocked ELSE g

Count(e) == Cardinality({j \in DOMAIN events : events[j].e = e})

\* The value the request carries under the correlation-id header.
CidHeader(r) ==
    IF "Correlation-Id" \in DOMAIN r.header THEN r.header["Correlation-Id"] ELSE ""

\* The handler of goroutine gr has returned.
Returned(gr) == gr.pc \in {"serve", "done"} /\ gr.todo = <<>> /\ gr.frames = <<>>

\* The fault injector short-circuited the request.
Failed == \E j \in DOMAIN events : events[j].e = "injectFails" /\ events[j].v = "random fail"

\* Calls of what the unstable path delegates to: stabler.stable, or stable(w)
\* in the first server.
DownstreamCalls == Count("httpStabler.stable") + Count("stable")

OnUnstable == Outer.pc \notin {"idle", "none"} /\ Outer.req.path = "/unstable"

----------------------------------------------------------------------------
\* C1: a request whose path is exactly /stable is answered with status 200
\* and the body "hello world", whatever its method, headers or body; no
\* other status is ever written for it.
C1_StableAlwaysHelloWorld ==
    g.req.path = "/stable" =>
        /\ g.w.status \in {0, 200}
        /\ Returned(g) => g.w.status = 200 /\ g.w.body = "hello world"

C1_Witness ==
    /\ g.pc = "done"
    /\ g.req.path = "/stable"
    /\ g.req.method = "POST"
    /\ g.req.body = "payload"
    /\ CidHeader(g.req) = "abc-123"
    /\ g.w.status = 200

\* C2: a request whose path is neither /stable nor /unstable is answered by
\* the router with 404 and the body "not found", for any method, and neither
\* the stable nor the unstable handler is called for it.
C2_UnknownPathNotFound ==
    (g.pc \in {"serve", "done"} /\ g.req.path \notin {"/stable", "/unstable"}) =>
        /\ \A j \in DOMAIN events :
             events[j].e \notin {"handling stable", "stable", "unstable", "unstableHandler"}
        /\ \A j \in DOMAIN g.todo :
             g.todo[j].k \in {"otelhttp", "logicHandler"}
        /\ Returned(g) => g.w.status = 404 /\ g.w.body = "not found"

C2_Witness ==
    /\ g.pc = "done"
    /\ g.req.path = "/stable/"
    /\ g.req.method = "POST"
    /\ g.w.status = 404
    /\ g.w.body = "not found"

----------------------------------------------------------------------------
Reverse(m) == [j \in 1..Len(m) |-> m[Len(m) + 1 - j]]

\* What a call logs when the first middleware of m is the outermost wrapper.
Nested(m) ==
    [j \in 1..Len(m) |-> Ev("before", m[j])]
        \o <<Ev("H", "")>>
        \o [j \in 1..Len(m) |-> Ev("after", m[Len(m) + 1 - j])]

\* C3 as stated: wrap(H, M1, ..., Mn) is M1(M2(...Mn(H))), the first
\* middleware of the list is the outermost wrapper and the last wraps H.
C3_FirstIsOutermost == g.pc = "done" => events = Nested(g.m)

\* C3 as the code has it: wrap(H, M1, ..., Mn) is Mn(...M2(M1(H))), the last
\* middleware of the list is the outermost wrapper (its before-logic runs
\* first, its after-logic last) and the first one wraps H directly.
C3_LastIsOutermost == g.pc = "done" => events = Nested(Reverse(g.m))

C3_Witness ==
    /\ g.pc = "done"
    /\ Len(g.m) = 3
    /\ g.m[1] # g.m[3]
    /\ events[1] = Ev("before", g.m[3])

----------------------------------------------------------------------------
\* C4: a request to /unstable that carries a non-empty correlation-id X makes
\* httpStabler run with the context id X and send the internal GET with the
\* header correlation-id = X, and the stable handler that serves the internal
\* request runs with the context id X.
C4_CorrelationIdRoundTrip ==
    LET X == CidHeader(Outer.req)
    IN  (OnUnstable /\ X # "") =>
            /\ g.inner => CidHeader(g.req) = X
            /\ \A j \in DOMAIN events :
                 events[j].e \in {"httpStabler.stable", "handling stable"}
                     => events[j].cid = Str(X)

C4_Witness ==
    /\ g.inner
    /\ CidHeader(blocked.req) = "abc-123"
    /\ CidHeader(g.req) = "abc-123"
    /\ \E j \in DOMAIN events :
         events[j].e = "handling stable" /\ events[j].cid = Str("abc-123")

----------------------------------------------------------------------------
\* C5: the terminal step of the unstable handler answers 500 with no body
\* when the stabler returned an error and 200 with the returned string as the
\* body otherwise; an error of the stabler never becomes a panic.
C5_TerminalMapsStablerResult ==
    /\ g.pc # "panic"
    /\ (g.pc = "done" /\ result.err # "unset") =>
          IF result.err # "nil"
          THEN g.w.status = 500 /\ g.w.body = ""
          ELSE g.w.status = 200 /\ g.w.body = result.body

C5_Witness ==
    /\ g.pc = "done"
    /\ result = [body |-> "partial", err |-> "boom"]
    /\ g.w.status = 500
    /\ g.w.body = ""

----------------------------------------------------------------------------
\* C6 as stated: with the pass-through injectFails every request to
\* /unstable is answered with 200 and "hello world".
C6_AlwaysHelloWorld ==
    (g.pc = "done" /\ g.req.path = "/unstable" /\ ~ActiveFaults(variant)) =>
        g.w.status = 200 /\ g.w.body = "hello world"

\* C6 as the code has it: with the pass-through injectFails every request to
\* /unstable sleeps once before anything is written and reaches the stabler
\* once; it is answered with 200 and "hello world" when the stabler returns
\* no error, and with 500 and no body when the internal GET could not be
\* sent or its body could not be read.
C6_HelloWorldUnlessStablerFails ==
    (OnUnstable /\ ~ActiveFaults(variant)) =>
        /\ Count("sleep") <= 1
        /\ Outer.w.status # 0 =>
             Count("sleep") = 1 /\ Count("httpStabler.stable") = 1
        /\ g.pc = "done" =>
             IF result.err = "nil"
             THEN g.w.status = 200 /\ g.w.body = "hello world"
             ELSE /\ g.w.status = 500 /\ g.w.body = ""
                  /\ result.err \in {"could not send get request",
                                     "could not read response bytes"}

C6_Witness ==
    /\ g.pc = "done"
    /\ g.req.path = "/unstable"
    /\ ~ActiveFaults(variant)
    /\ g.w.status = 200
    /\ g.w.body = "hello world"
    /\ \E j \in DOMAIN events : events[j].e = "sleep" /\ events[j].ms = 999

----------------------------------------------------------------------------
\* C7: whatever the path, the middleware decisions and the outcome of the
\* internal call, the status a caller of the logic listener gets is 200, 404
\* or 500, and a 500 response has no body.
C7_OnlyThreeStatuses ==
    /\ g.pc # "panic"
    /\ \A gr \in {g, blocked} :
         /\ gr.w.status \in {0, 200, 404, 500}
         /\ gr.w.status = 500 => gr.w.body = ""
    /\ g.pc = "done" => g.w.status # 0

C7_Witness ==
    /\ g.pc = "done"
    /\ variant = "main"
    /\ result.err = "could not read response bytes"
    /\ g.w.status = 500
    /\ g.w.body = ""

----------------------------------------------------------------------------
\* C8: with the active fault injector a request to /unstable makes one
\* choice: on the fail branch 500 is written and the downstream is never
\* called, on the pass branch it is called exactly once, and in no case is it
\* called more than once.
C8_OneChoiceNoRetry ==
    (OnUnstable /\ ActiveFaults(variant)) =>
        /\ Count("injectFails") <= 1
        /\ DownstreamCalls <= 1
        /\ Failed => /\ DownstreamCalls = 0
                     /\ Outer.w.status = 500
                     /\ Outer.w.body = ""
        /\ g.pc = "done" =>
             /\ Count("injectFails") = 1
             /\ ~Failed => DownstreamCalls = 1

C8_Witness ==
    /\ g.pc = "done"
    /\ variant = "part_002"
    /\ g.req.path = "/unstable"
    /\ Failed
    /\ DownstreamCalls = 0
    /\ g.w.status = 500

----------------------------------------------------------------------------
\* C9 as stated: the sleep is executed only for a request that has passed
\* the fault check, and a request the fault injector answers with 500 has
\* not slept.
C9_SleepOnlyAfterPass ==
    /\ \A j \in DOMAIN events :
         events[j].e = "sleep" =>
             \E k \in 1..(j - 1) :
                 events[k].e = "injectFails" /\ events[k].v = "pass"
    /\ Failed => Count("sleep") = 0

\* C9 as the code has it: in the builds that compose the unstable pipeline
\* with wrap, the sleep comes before the fault check on every request to
\* /unstable (slowDown is the outermost layer, or sleeps while wrap still
\* composes), so a request the fault injector answers with 500 has slept too.
C9_SleepBeforeFaultCheck ==
    (OnUnstable /\ variant # "part_001") =>
        /\ Count("sleep") <= 1
        /\ \A j \in DOMAIN events :
             events[j].e = "injectFails" =>
                 \E k \in 1..(j - 1) : events[k].e = "sleep"
        /\ g.pc = "done" => Count("sleep") = 1

C9_Witness ==
    /\ g.pc = "done"
    /\ variant = "part_002"
    /\ Failed
    /\ g.w.status = 500
    /\ Count("sleep") = 1
    /\ DownstreamCalls = 0

----------------------------------------------------------------------------
\* The request the j-th layer on the stack handed to the handler it called.
Passed(j) == IF j < Len(g.frames) THEN g.frames[j + 1].req ELSE g.req

\* C10: correlationIdMiddleware passes the request on unchanged when its
\* context holds a non-empty string id; otherwise it passes a copy whose
\* context holds the non-empty correlation-id header, or a fresh non-empty id
\* when there is no such header; the handler it calls always sees a non-empty
\* string id.
C10_CidPriority ==
    /\ \A j \in DOMAIN g.frames :
         g.frames[j].k = "correlationId" =>
             LET in == g.frames[j].req
                 out == Passed(j)
                 c == in.ctx.correlationId
                 got == out.ctx.correlationId
             IN  /\ got.t = "string" /\ got.v # ""
                 /\ out = [in EXCEPT !.ctx.correlationId = got]
                 /\ IF c.t = "string" /\ c.v # "" THEN out = in
                    ELSE IF CidHeader(in) # "" THEN got.v = CidHeader(in)
                    ELSE got.v \in GenIds
    /\ \A j \in DOMAIN events :
         events[j].e = "handling stable" =>
             events[j].cid.t = "string" /\ events[j].cid.v # ""

C10_Witness ==
    /\ Len(g.frames) = 1
    /\ g.frames[1].k = "correlationId"
    /\ g.frames[1].req.ctx.correlationId = Str("ctx-1")
    /\ CidHeader(g.frames[1].req) = "abc-123"
    /\ \E j \in DOMAIN events :
         events[j].e = "handling stable" /\ events[j].cid = Str("ctx-1")

----------------------------------------------------------------------------
\* C11: correlation-id resolution applied a second time, nested in the first
\* or re-entered with the context the first produced, changes nothing: the
\* second application hands on the request it received, with the id the
\* first one resolved, also when there is no header and the id was generated.
C11_CidIdempotent ==
    \A j \in DOMAIN g.frames : \A k \in DOMAIN g.frames :
        (j < k /\ g.frames[j].k = "correlationId" /\ g.frames[k].k = "correlationId") =>
            /\ Passed(k) = g.frames[k].req
            /\ Passed(k).ctx.correlationId = Passed(j).ctx.correlationId

C11_Witness ==
    /\ Len(g.frames) = 2
    /\ g.frames[1].k = "correlationId"
    /\ g.frames[2].k = "correlationId"
    /\ g.frames[1].req.ctx.correlationId = Nil
    /\ CidHeader(g.frames[1].req) = ""
    /\ g.req.ctx.correlationId = Str("123456789")
    /\ \E j \in DOMAIN events :
         events[j].e = "handling stable" /\ events[j].cid = Str("123456789")

----------------------------------------------------------------------------
\* The events named e, those of a span named n, and whether a call of
\* httpStabler.stable by the handler's goroutine has returned.
Events(e) == {j \in DOMAIN events : events[j].e = e}

SpanEvents(e, n) == {j \in Events(e) : events[j].v = n}

StableReturned == ~g.inner /\ g.pc = "serve" /\ result.err # "unset"

Is2xx(st) == st \in 200..299

\* C12: httpStabler.stable returns an error and an empty body whenever the
\* GET fails at the network level or the response status is not 2xx, and
\* returns the full body with a nil error only for a 2xx response whose body
\* was read completely.
C12_ErrorUnless2xx ==
    StableReturned =>
        /\ (Events("Client.Do") = {} \/ \E j \in Events("Client.Do") : ~Is2xx(events[j].ms))
              => (result.err # "nil" /\ result.body = "")
        /\ result.err = "nil" =>
              /\ \E j \in Events("Client.Do") :
                   Is2xx(events[j].ms) /\ result.body = events[j].v
              /\ \E j \in Events("io.ReadAll") : events[j].v = "read"

\* C13: in every build, once the GET returned a response the body is closed
\* exactly once whether the read succeeds or fails, a failed read returns
\* the read error, and the outcome of Close does not change what is returned.
C13_BodyClosedOnceInEveryBuild ==
    (StableReturned /\ Events("Client.Do") # {}) =>
        /\ Cardinality(Events("Body.Close")) = 1
        /\ \A j \in Events("io.ReadAll") :
             result = IF events[j].v = "read"
                      THEN [body |-> events[j - 1].v, err |-> "nil"]
                      ELSE [body |-> "", err |-> "could not read response bytes"]

\* What C14 says of every state: the span is started before the wrapped
\* stabler is called, the wrapped stabler is called once and with the
\* context of the span, a child of the caller's, and once stable has
\* returned the span has been ended once, after the wrapped stabler
\* returned, on the error paths as on the success path.
TracingStablerBrackets ==
    LET starts == SpanEvents("span.start", "stabler")
        ends   == SpanEvents("span.end", "stabler")
        calls  == Events("httpStabler.stable")
        traced == NewLogicHandler(variant).stabler[1].k = "tracingStabler"
    IN  traced =>
          /\ Cardinality(starts) <= 1
          /\ Cardinality(ends) <= 1
          /\ Cardinality(calls) <= 1
          /\ \A c \in calls : \E b \in starts : b < c
          /\ \A e \in ends : e = Len(events) /\ \E c \in calls : c < e
          /\ (AtLayer("httpStabler") /\ ~g.inner) =>
                /\ Len(g.frames) = 1
                /\ Top.k = "tracingStabler"
                /\ g.req.ctx = [Top.req.ctx EXCEPT !.span = "stabler"]
                /\ g.req.ctx # Top.req.ctx
                /\ ends = {}
          /\ (StableReturned /\ g.frames = <<>>) =>
                /\ Cardinality(starts) = 1
                /\ Cardinality(ends) = 1
                /\ Cardinality(calls) = 1

\* C14: tracingStabler.stable starts its span before it calls the wrapped
\* stabler, calls it exactly once with the span's context, ends the span
\* exactly once after the wrapped stabler returned, on the success and on the
\* error paths, and returns the wrapped stabler's (body, error) unchanged.
C14_TracingStablerTransparent ==
    /\ []TracingStablerBrackets
    /\ [][TracingStablerReturn => result' = result]_vars

C14_Witness ==
    /\ variant = "main"
    /\ StableReturned
    /\ g.frames = <<>>
    /\ result.err = "could not read response bytes"
    /\ Cardinality(SpanEvents("span.end", "stabler")) = 1

----------------------------------------------------------------------------
\* The increments of the success and of the total counter of route n.
OkInc(n) == Cardinality(SpanEvents("ok.Inc", n))

TotalInc(n) == Cardinality(SpanEvents("total.Inc", n))

\* C15: by the time countingMiddleware returns for a request, the total
\* counter of its route has been incremented exactly once, and the success
\* counter once when the status the inner handler passed to WriteHeader is
\* below 500 and not at all otherwise, on every path through the handler.
C15_CountedByWrittenStatus ==
    variant = "main" =>
        \A n \in {"stable", "unstable"} :
            /\ OkInc(n) <= TotalInc(n)
            /\ TotalInc(n) <= 1
            /\ (Returned(g) /\ g.req.path = "/" \o n) =>
                  /\ g.w.headerCalls = 1
                  /\ TotalInc(n) = 1
                  /\ OkInc(n) = IF g.w.status < 500 THEN 1 ELSE 0

C15_Witness ==
    /\ variant = "main"
    /\ ~g.inner
    /\ Returned(g)
    /\ g.req.path = "/unstable"
    /\ g.w.status = 500
    /\ TotalInc("unstable") = 1
    /\ OkInc("unstable") = 0
    /\ TotalInc("stable") = 1
    /\ OkInc("stable") = 1

----------------------------------------------------------------------------
\* The wrappers a call has entered and not left, outermost first.
Wrappers == [j \in DOMAIN g.frames |-> L(g.frames[j].k, g.frames[j].n)]

\* The kind of the metrics wrapper of the build.
Meter == IF variant = "main" THEN "counting" ELSE "timing"

\* The request of the client is inside unstableHandler.ServeHTTP of a build
\* with tracing: wrap is composing, or the delay, the fault check or the
\* terminal closure is about to run.
InUnstableHandler ==
    /\ variant \in {"main", "part_000"}
    /\ ~g.inner
    /\ \/ g.pc = "wrap"
       \/ /\ g.pc = "serve"
          /\ g.todo # <<>>
          /\ Head(g.todo).k \in {"unstableHandler", "injectFails", "slowDown", "terminal"}

\* C18 as stated: for /unstable the nesting is tracing(counting(correlation(
\* fault(delay(business-logic))))): the route span is opened first, the
\* counting wrapper is entered inside it, and the correlation id is resolved
\* inside the counting wrapper.
C18_CorrelationInsideCounting ==
    InUnstableHandler =>
        \E a \in DOMAIN g.frames, b \in DOMAIN g.frames, c \in DOMAIN g.frames :
            /\ a < b
            /\ b < c
            /\ Wrappers[a] = L("otelhttp", "http-unstable")
            /\ Wrappers[b] = L(Meter, "unstable")
            /\ Wrappers[c] = L("correlationId", "")

\* C18, amended: for /unstable the nesting is correlation(tracing(counting(
\* ...))) under the span of the router: the correlation id is resolved first,
\* the route span is opened inside it, the counting wrapper is entered inside
\* the span, and the delay and the fault check run inside all three.
C18_CorrelationOutsideRouteSpan ==
    InUnstableHandler =>
        Wrappers = <<L("otelhttp", "logic routing"), L("correlationId", ""),
                     L("otelhttp", "http-unstable"), L(Meter, "unstable")>>

C18_Witness ==
    /\ variant = "main"
    /\ ~g.inner
    /\ AtLayer("terminal")
    /\ Len(g.frames) = 4
    /\ g.frames[2].k = "correlationId"
    /\ g.frames[4].k = "counting"
    /\ Count("sleep") = 1
    /\ Count("injectFails") = 1

\* C19: WriteHeader is called exactly once for every request the logic
\* router handles, on the not-found, stable, injected-fault, stabler-error and
\* stabler-success branches alike, and never a second time.
C19_WriteHeaderOnce ==
    /\ g.w.headerCalls <= 1
    /\ (g.pc \notin {"idle", "none"} /\ Returned(g)) => g.w.headerCalls = 1

C19_Witness ==
    /\ variant = "part_002"
    /\ g.pc = "done"
    /\ Failed
    /\ g.w.status = 500
    /\ g.w.headerCalls = 1

----------------------------------------------------------------------------
\* The process has exited after the root context was cancelled by a signal,
\* both listeners having bound.
ExitedOnSignal ==
    /\ proc.exit # "running"
    /\ proc.cancelled
    /\ \A s \in Servers : proc.listen[s] # "bind failed"

\* C16: after a termination signal the servers stop accepting, and every
\* request in flight that needs less than the 5-second window completes
\* normally, its response produced by the handler, before the connections
\* are closed and before the process exits.
C16_InFlightCompletesBeforeExit ==
    /\ proc.conn.state = "active" => proc.conn.left < GraceSeconds
    /\ ExitedOnSignal => proc.conn.state # "active"

\* C17: the process exits with status 0 on a shutdown triggered by a
\* signal, in every interleaving of main, the signal goroutine, the two
\* server-shutdown goroutines and the two ListenAndServe goroutines; it exits
\* with another status, and a fatal log, only when a listener fails to bind.
C17_ExitZeroUnlessBindFails ==
    proc.exit # "running" =>
        /\ proc.exit = "1" <=> \E s \in Servers : proc.listen[s] = "bind failed"
        /\ proc.exit = "0" => proc.cancelled

\* C20: on shutdown each provider's Shutdown is called with a 5-second
\* context of its own that does not depend on the cancelled root context,
\* and that call has returned before the process exits; an error of the
\* flush is logged and leaves the exit status alone.
C20_ExportersFlushedBeforeExit ==
    /\ \A e \in Exporters :
         (proc.exporter[e].pc = "flushing" /\ proc.clock = proc.exporter[e].since)
             => (proc.cancelled /\ ~ExporterTimeoutDone(proc, proc.exporter[e].since))
    /\ ExitedOnSignal => \A e \in Exporters : proc.exporter[e].pc = "returned"
    /\ (proc.exit = "1" /\ proc.cancelled) =>
           \E s \in Servers : proc.listen[s] \in {"bind failed", "closed"}

----------------------------------------------------------------------------
\* C23: wrap called with an empty middleware list returns the terminal
\* handler H itself: a call of the result does what a call of H does, H runs
\* once and nothing else does, and nothing panics.
C23_EmptyListReturnsH ==
    (g.m = <<>> /\ g.pc \notin {"idle", "none"}) =>
        /\ g.handler = <<L("H", "")>>
        /\ g.pc # "panic"
        /\ g.pc = "done" =>
              /\ events = <<Ev("H", "")>>
              /\ g.w = Write(WriteHeader(NewWriter, 200), "H")

C23_Witness ==
    /\ g.m = <<>>
    /\ g.pc = "done"
    /\ events = <<Ev("H", "")>>
    /\ g.w.status = 200

----------------------------------------------------------------------------
\* C25: in the composed pipeline httpStabler.stable is reached only with a
\* context whose correlationId is a non-empty string, whether the request to
\* /unstable has the header, has it empty or lacks it, so the type assertion
\* on the context value never panics.
C25_StablerSeesStringCid ==
    /\ g.pc # "panic"
    /\ blocked.pc # "panic"
    /\ AtLayer("httpStabler") =>
          /\ g.req.ctx.correlationId.t = "string"
          /\ g.req.ctx.correlationId.v # ""
    /\ \A j \in Events("httpStabler.stable") :
          events[j].cid.t = "string" /\ events[j].cid.v # ""

C25_Witness ==
    /\ AtLayer("httpStabler")
    /\ variant = "main"
    /\ "Correlation-Id" \in DOMAIN g.req.header
    /\ g.req.header["Correlation-Id"] = ""
    /\ g.req.ctx.correlationId = Str("0")

----------------------------------------------------------------------------
\* A step that changes no request held by a correlationIdMiddleware that
\* waits for its next handler.
CidFramesKept ==
    \A j \in DOMAIN g.frames :
        (g.frames[j].k = "correlationId" /\ j \in DOMAIN g'.frames)
            => g'.frames[j].req = g.frames[j].req

\* C22: correlationIdMiddleware writes no status and no body itself, calls
\* the next handler exactly once on each of its paths, and hands it a copy
\* of the request with a new derived context: the context and the headers of
\* the request it received are what they were when it returns.
C22_CidOnlyDerivesContext ==
    /\ [][CorrelationId =>
            /\ g'.w = g.w
            /\ g'.todo = Tail(g.todo)
            /\ g'.frames[Len(g'.frames)].req = g.req
            /\ g'.req.header = g.req.header
            /\ events' = events]_vars
    /\ [][CidFramesKept]_vars
    /\ [][CorrelationIdReturn =>
            /\ g'.w = g.w
            /\ g'.req = g.frames[Len(g.frames)].req
            /\ events' = events]_vars
    /\ [](g.pc = "done" =>
            /\ Count("handling stable") = 1
            /\ g.w = Write(WriteHeader(NewWriter, 200), "hello world"))

C22_Witness ==
    /\ g.pc = "done"
    /\ g.req.ctx.correlationId = Nil
    /\ g.req.header = NoHeader
    /\ Count("handling stable") = 1
    /\ \E j \in Events("handling stable") : events[j].cid = Str("123456789")

----------------------------------------------------------------------------
\* The call of the handler of goroutine gr is over: it returned, or the
\* panic has left its last layer.
Finished(gr) == Returned(gr) \/ (gr.pc = "panic" /\ gr.frames = <<>>)

\* C21: timingMiddleware records exactly one observation per request it
\* handles, after the wrapped handler is over, also when the wrapped handler
\* panics or answers 500, and the exemplar label of the observation is the
\* trace id of the context of the request.
C21_ObservedOnceWithTraceId ==
    /\ Count("observe") <= 1
    /\ Count("exemplar") = Count("observe")
    /\ \A j \in Events("observe") : \E k \in Events("handler") : k < j
    /\ \A k \in Events("handler") : \A j \in Events("observe") : k < j
    /\ (g.pc \notin {"idle", "none"} /\ Finished(g)) =>
          /\ Count("observe") = 1
          /\ \A j \in Events("exemplar") : events[j].v = g.req.ctx.trace
          /\ \A j \in Events("observe") : events[j].v = SubSeq(g.req.path, 2, Len(g.req.path))

C21_Witness ==
    /\ g.pc = "panic"
    /\ g.frames = <<>>
    /\ Count("observe") = 1
    /\ g.req.ctx.trace = "0af7651916cd43dd8448eb211c80319c"
    /\ \E j \in Events("exemplar") : events[j].v = "0af7651916cd43dd8448eb211c80319c"

----------------------------------------------------------------------------
\* The requests of route r that have incremented the success counter and
\* not yet the total counter.
BetweenIncs(r) ==
    {i \in 1..MaxRequests :
        /\ proc.counting[i].pc = "deferred"
        /\ proc.counting[i].route = r
        /\ proc.counting[i].status # 0
        /\ proc.counting[i].status < 500}

\* No counter decreases in any step.
CountersNeverDecrease ==
    [][\A r \in Routes :
         /\ proc'.counters[r].ok >= proc.counters[r].ok
         /\ proc'.counters[r].total >= proc.counters[r].total]_vars

\* What the counters do satisfy: success exceeds total by exactly the
\* requests that stand between their two increments.
OkWithinInFlight ==
    \A r \in Routes :
        proc.counters[r].ok <= proc.counters[r].total + Cardinality(BetweenIncs(r))

\* C24: with any number of requests handled concurrently, in every
\* reachable state, as a scrape of /metrics can observe it, the success
\* counter of each route is at most its total counter.
C24_OkAtMostTotal ==
    \A r \in Routes : proc.counters[r].ok <= proc.counters[r].total

====
